---- MODULE Spec2Model ----
(***************************************************************************)
(* State-machine model of the stock price service (naikamit/yfinprice).    *)
(*                                                                         *)
(* The repository holds three rewrites of the same service:                *)
(*   "main"        main.py + scheduler.py + price_fetcher.py + storage.py  *)
(*                 + web_server.py                                         *)
(*   "standalone"  standalone.py (same scheduler and fetch code, inlined)  *)
(*   "app"         app.py                                                  *)
(* The variable `variant` fixes which one a behaviour is a run of.         *)
(*                                                                         *)
(* Strings that the code parses or normalises (the SYMBOLS setting, ticker *)
(* symbols, URL arguments) are sequences of one-character strings, so that *)
(* split / strip / upper are computed as the code computes them.           *)
(*                                                                         *)
(* APScheduler (BackgroundScheduler) is modelled by its documented         *)
(* behaviour: jobs run in a thread pool; max_instances is counted per job  *)
(* id; a run that would exceed it is skipped, not queued; shutdown() waits *)
(* for the running jobs unless wait=False is passed.                       *)
(*                                                                         *)
(* Specifications:                                                         *)
(*   Spec            the whole program, each request handled in one step   *)
(*   CycleSpec       start-up, scheduler, fetch cycles, shutdown           *)
(*   ShutdownSpec    CycleSpec with fairness                               *)
(*   ReaderSpec      the fetch cycles and one /check request step by step  *)
(*   ConcurrentSpec  ReaderSpec with further /check requests in between    *)
(*   FormatSpec      format_staleness applied to each staleness            *)
(***************************************************************************)
EXTENDS Integers, Sequences, FiniteSets, TLC

VARIABLES
    variant,      \* which program runs
    SYMBOLS,      \* configured symbol list, fixed at import time
    price_data,   \* storage.price_data / app.stock_data: symbol -> record
    now,          \* time.time(), in units of one minute
    scheduler,    \* "stopped" (not started) | "running" | "shutdown"
    next_run,     \* next fire time of the interval job
    initial_due,  \* the one-shot job "fetch_prices_initial" is waiting to be submitted
    mainpc,       \* position of the main thread: "start" | "initial_fetch" | "serving"
                  \*   | "shutdown" (inside scheduler.shutdown()) | "exited"
    pc,           \* per fetch-cycle thread: "idle" | "call" | "store" | "returned" | "done"
                  \*   ("raised": the function was left by an exception)
    idx,          \* per thread: index in SYMBOLS of the symbol being fetched
    local,        \* per thread: the price and timestamp locals of the pending write
    api_calls,    \* web_server.api_calls["total"]
    resp,         \* the last HTTP response produced
    worker,       \* a server thread that is followed through check() or dashboard()
                  \* step by step:
                  \*   pc "idle" | "incr" (total loaded, not yet stored) | "get" | "entry"
                  \*      (dashboard(): "age" (record held, staleness not yet taken) | "row")
                  \*   total  the value of api_calls["total"] it has loaded
                  \*   i      index in SYMBOLS of the symbol of the loop
                  \*   data   the record prices.get(symbol, {}) has returned
                  \*   body   response_data so far
    formatted,    \* a call of format_staleness: its argument and the text returned
    hist          \* history (not program state):
                  \*   succeeded  symbols for which the client has returned a price
                  \*   lastPut    per symbol, the arguments of the last write
                  \*   started    per thread, the start time of its current cycle
                  \*   writer     per symbol, the start time of the cycle that wrote it last

vars == <<variant, SYMBOLS, price_data, now, scheduler, next_run, initial_due,
          mainpc, pc, idx, local, api_calls, resp, worker, formatted, hist>>

-----------------------------------------------------------------------------
(* Bounds of the model *)

\* the clock stops advancing here
MaxTime == 2
\* /check requests counted by api_calls before the model stops issuing them
MaxCalls == 1
\* largest staleness, in minutes, that format_staleness is applied to
MaxMinutes == 2000

-----------------------------------------------------------------------------
(* Values *)

None == "None"

\* the latest close the market data client quotes at time t: the quote moves
\* with the clock, so that fetches made at different times return different prices
close_price(t) == 10 * (t + 1)

\* ways a client call can end without a price
Failures == {"empty", "noclose", "raise"}

\* the deployments tried by the model: a program and the value of the SYMBOLS
\* environment setting it is started with
Deployments ==
    { <<"main", <<"A", ",", "B">> >>,
      <<"standalone", <<" ", "a">> >>,
      <<"app", <<"A", ",", "B">> >>,
      <<"app", <<"a">> >> }

\* the two threads that can execute a fetch cycle: the start-up run and the
\* (single, max_instances=1) instance of the interval job
Threads == {"initial", "tick"}

\* symbols requested over HTTP in /price/<symbol>
RequestSymbols == { <<"A">>, <<"a">>, <<"Z">> }

-----------------------------------------------------------------------------
(* String functions *)

\* str.upper() on one character
upper_char(c) ==
    CASE c = "a" -> "A"
      [] c = "b" -> "B"
      [] c = "z" -> "Z"
      [] OTHER   -> c

\* str.upper()
upper(s) == [i \in 1..Len(s) |-> upper_char(s[i])]

RECURSIVE lstrip(_)
lstrip(s) == IF s # <<>> /\ Head(s) = " " THEN lstrip(Tail(s)) ELSE s

RECURSIVE rstrip(_)
rstrip(s) ==
    IF s # <<>> /\ s[Len(s)] = " " THEN rstrip(SubSeq(s, 1, Len(s) - 1)) ELSE s

\* str.strip()
strip(s) == rstrip(lstrip(s))

\* str.split(","): the pieces between commas, in order
RECURSIVE split(_, _)
split(s, cur) ==
    IF s = <<>> THEN <<cur>>
    ELSE IF Head(s) = "," THEN <<cur>> \o split(Tail(s), <<>>)
    ELSE split(Tail(s), Append(cur, Head(s)))

\* config.SYMBOLS / standalone.SYMBOLS: split on commas, each piece stripped
config_SYMBOLS(env) ==
    LET parts == split(env, <<>>) IN [i \in 1..Len(parts) |-> strip(parts[i])]

\* app.symbols: split on commas only
app_symbols(env) == split(env, <<>>)

parse_symbols(v, env) ==
    IF v = "app" THEN app_symbols(env) ELSE config_SYMBOLS(env)

Range(f) == {f[i] : i \in DOMAIN f}

-----------------------------------------------------------------------------
(* Storage *)

Empty == [s \in {} |-> None]

\* a faulty update_price, which keeps a record that exists instead of
\* overwriting it (C9 must not hold of it)
update_price_keeps(data, symbol, price, timestamp) ==
    [s \in DOMAIN data \cup {symbol} |->
        IF s \in DOMAIN data THEN data[s]
        ELSE [price |-> price, timestamp |-> timestamp]]

\* the dict assignment price_data[symbol] = {"price": ..., "timestamp": ...}
update_price(data, symbol, price, timestamp) ==
    [s \in DOMAIN data \cup {symbol} |->
        IF s = symbol THEN [price |-> price, timestamp |-> timestamp] ELSE data[s]]

\* an optional number: Python's None, or a float
Nothing == [some |-> FALSE, value |-> 0]
Some(n) == [some |-> TRUE, value |-> n]

\* a faulty staleness, which subtracts the wrong way round (C13 must not hold of it)
get_price_staleness_reversed(data, symbol, t) ==
    IF symbol \notin DOMAIN data THEN Nothing
    ELSE LET staleness_seconds == 60 * data[symbol].timestamp - 60 * t
         IN Some(staleness_seconds \div 60)

\* storage.get_price_staleness at clock reading t (t and the timestamps are in
\* minutes, time.time() is in seconds): None without a record, else the age
\* of the record in minutes
get_price_staleness(data, symbol, t) ==
    IF symbol \notin DOMAIN data THEN Nothing
    ELSE LET staleness_seconds == 60 * t - 60 * data[symbol].timestamp
         IN Some(staleness_seconds \div 60)

\* f"{num / den:.1f}", as a number of tenths: the quotient rounded to the
\* nearest tenth. When the quotient lies exactly between two tenths the
\* rounding follows the binary value of the float, which is not computed
\* here: either neighbour is allowed.
one_decimal(num, den) ==
    LET q == (10 * num) \div den
        r == (10 * num) % den
    IN IF 2 * r < den THEN {q}
       ELSE IF 2 * r > den THEN {q + 1}
       ELSE {q, q + 1}

\* a rendered staleness: "Unknown", or "<tenths / 10> <unit>" with one decimal
Unknown == [tenths |-> 0, unit |-> "Unknown"]

\* a faulty format_staleness, which compares with <= (C15 must not hold of it)
format_staleness_inclusive(minutes) ==
    IF ~minutes.some THEN {Unknown}
    ELSE IF minutes.value <= 60
    THEN {[tenths |-> k, unit |-> "minutes"] : k \in one_decimal(minutes.value, 1)}
    ELSE IF minutes.value <= 1440
    THEN {[tenths |-> k, unit |-> "hours"] : k \in one_decimal(minutes.value, 60)}
    ELSE {[tenths |-> k, unit |-> "days"] : k \in one_decimal(minutes.value, 1440)}

\* storage.format_staleness / standalone.format_staleness: the texts the
\* call can return (one, except where one_decimal allows two)
format_staleness(minutes) ==
    IF ~minutes.some THEN {Unknown}
    ELSE IF minutes.value < 60
    THEN {[tenths |-> k, unit |-> "minutes"] : k \in one_decimal(minutes.value, 1)}
    ELSE IF minutes.value < 1440
    THEN {[tenths |-> k, unit |-> "hours"] : k \in one_decimal(minutes.value, 60)}
    ELSE {[tenths |-> k, unit |-> "days"] : k \in one_decimal(minutes.value, 1440)}

-----------------------------------------------------------------------------
(* Initial state: module import has created the globals; nothing runs yet *)

NoLocal == [price |-> 0, timestamp |-> 0]

NoResp == [route |-> "none", status |-> 0]

\* the {} that prices.get(symbol, {}) returns for a symbol without a record
NoData == [found |-> FALSE, price |-> 0, timestamp |-> 0]

Idle == [pc |-> "idle", total |-> 0, i |-> 0, data |-> NoData, body |-> Empty]

NotCalled == [minutes |-> Nothing, text |-> Unknown, returned |-> FALSE]

ProgramInit ==
    /\ \E d \in Deployments :
          /\ variant = d[1]
          /\ SYMBOLS = parse_symbols(d[1], d[2])
    /\ price_data = Empty
    /\ now = 0
    /\ scheduler = "stopped"
    /\ next_run = 0
    /\ initial_due = FALSE
    /\ mainpc = "start"
    /\ pc = [t \in Threads |-> "idle"]
    /\ idx = [t \in Threads |-> 0]
    /\ local = [t \in Threads |-> NoLocal]
    /\ api_calls = 0
    /\ resp = NoResp
    /\ worker = Idle
    /\ hist = [succeeded |-> {},
               lastPut   |-> Empty,
               started   |-> [t \in Threads |-> 0],
               writer    |-> Empty]

Init ==
    /\ ProgramInit
    /\ formatted = NotCalled

-----------------------------------------------------------------------------
(* Configuration *)

\* FETCH_INTERVAL, in minutes: the model runs with FETCH_INTERVAL=1 in the environment
FETCH_INTERVAL == 1

-----------------------------------------------------------------------------
(* The fetch cycle: price_fetcher.fetch_prices / app.fetch_stock_prices *)

\* the symbol thread t is fetching
symbol_of(t) == SYMBOLS[idx[t]]

\* a fetch cycle is executing in thread t
running(t) == pc[t] \in {"call", "store"}

\* What the loop body does with the result of ticker.history(), which is
\*   "ok"       rows with a Close column: a price
\*   "empty"    no rows
\*   "noclose"  rows without a Close column
\*   "raise"    an exception
\* The loop body either stores the price ("update"), logs and goes on to the
\* next symbol ("continue"), or is left by the exception, which the function
\* catches before it returns ("abort"). An exception that left the function
\* would be "propagate": every path of the code is under an except Exception.
\* price_fetcher.py and standalone.py catch inside the loop; app.py catches
\* outside it, and its data['Close'] raises KeyError when there is no Close column.
app_outcome(result) ==
    IF result = "ok" THEN "update"
    ELSE IF result = "empty" THEN "continue"
    ELSE "abort"

\* a faulty loop body without the try/except, which lets the client's
\* exception leave the function (C18 must not hold of it)
fetcher_outcome_uncaught(result) ==
    IF result = "ok" THEN "update"
    ELSE IF result = "raise" THEN "propagate"
    ELSE "continue"

fetcher_outcome(result) ==
    IF result = "ok" THEN "update" ELSE "continue"

loop_outcome(v, result) ==
    IF v = "app" THEN app_outcome(result) ELSE fetcher_outcome(result)

\* a faulty failure branch, which drops the symbol's record (C2 and C4 must
\* not hold of it)
failed_fetch_clears(data, symbol) ==
    [s \in DOMAIN data \ {symbol} |-> data[s]]

\* the cache after a failed fetch of symbol: every failure branch only logs
failed_fetch(data, symbol) == data

\* the for loop moves to the next symbol, or the function returns
next_symbol(t) ==
    IF idx[t] < Len(SYMBOLS)
    THEN /\ idx' = [idx EXCEPT ![t] = idx[t] + 1]
         /\ pc' = [pc EXCEPT ![t] = "call"]
    ELSE /\ idx' = idx
         /\ pc' = [pc EXCEPT ![t] = "returned"]

\* fetch_prices() is entered in thread t
start_cycle(t) ==
    /\ pc' = [pc EXCEPT ![t] = "call"]
    /\ idx' = [idx EXCEPT ![t] = 1]
    /\ hist' = [hist EXCEPT !.started[t] = now]

\* ticker.history() returns a usable close: update_price() reads time.time()
\* (app.py: the dict literal evaluates time.time()) and the write is pending
FetchOk(t) ==
    /\ pc[t] = "call"
    /\ loop_outcome(variant, "ok") = "update"
    /\ local' = [local EXCEPT ![t] = [price |-> close_price(now), timestamp |-> now]]
    /\ pc' = [pc EXCEPT ![t] = "store"]
    /\ hist' = [hist EXCEPT !.succeeded = hist.succeeded \cup {symbol_of(t)}]
    /\ UNCHANGED <<variant, SYMBOLS, worker, formatted, price_data, now, scheduler, next_run,
                   initial_due, mainpc, idx, api_calls, resp>>

\* the pending write: price_data[symbol] = {"price": price, "timestamp": timestamp}
Store(t) ==
    /\ pc[t] = "store"
    /\ price_data' = update_price(price_data, symbol_of(t),
                                  local[t].price, local[t].timestamp)
    /\ hist' = [hist EXCEPT
                  !.lastPut = [s \in DOMAIN hist.lastPut \cup {symbol_of(t)} |->
                                  IF s = symbol_of(t)
                                  THEN [price |-> local[t].price,
                                        timestamp |-> local[t].timestamp]
                                  ELSE hist.lastPut[s]],
                  !.writer = [s \in DOMAIN hist.writer \cup {symbol_of(t)} |->
                                 IF s = symbol_of(t) THEN hist.started[t]
                                 ELSE hist.writer[s]]]
    /\ local' = [local EXCEPT ![t] = NoLocal]
    /\ next_symbol(t)
    /\ UNCHANGED <<variant, SYMBOLS, worker, formatted, now, scheduler, next_run, initial_due,
                   mainpc, api_calls, resp>>

\* ticker.history() returns nothing usable or raises, and the loop continues
FetchFailed(t, f) ==
    /\ pc[t] = "call"
    /\ loop_outcome(variant, f) = "continue"
    /\ price_data' = failed_fetch(price_data, symbol_of(t))
    /\ next_symbol(t)
    /\ UNCHANGED <<variant, SYMBOLS, worker, formatted, now, scheduler, next_run, initial_due,
                   mainpc, local, api_calls, resp, hist>>

\* how the function ends when the exception has left the loop
function_exit(outcome) == IF outcome = "propagate" THEN "raised" ELSE "returned"

\* app.py: the exception leaves the for loop and fetch_stock_prices() returns
FetchAborted(t, f) ==
    /\ pc[t] = "call"
    /\ loop_outcome(variant, f) \in {"abort", "propagate"}
    /\ price_data' = failed_fetch(price_data, symbol_of(t))
    /\ pc' = [pc EXCEPT ![t] = function_exit(loop_outcome(variant, f))]
    /\ UNCHANGED <<variant, SYMBOLS, worker, formatted, now, scheduler, next_run, initial_due,
                   mainpc, idx, local, api_calls, resp, hist>>

-----------------------------------------------------------------------------
(* Start-up and the scheduler *)

\* main.main (standalone.py: the __main__ block): init_scheduler() adds the
\* interval job and the one-shot job and starts the scheduler thread, and
\* app.run() starts serving as soon as init_scheduler() has returned
main ==
    /\ variant # "app"
    /\ mainpc = "start"
    /\ scheduler' = "running"
    /\ next_run' = now + FETCH_INTERVAL
    /\ initial_due' = TRUE
    /\ mainpc' = "serving"
    /\ UNCHANGED <<variant, SYMBOLS, worker, formatted, price_data, now, pc, idx, local,
                   api_calls, resp, hist>>

\* the scheduler thread submits the one-shot job "fetch_prices_initial" to the
\* pool; it has its own job id, so the interval job's instances do not count
run_initial_job ==
    /\ scheduler = "running"
    /\ initial_due
    /\ initial_due' = FALSE
    /\ start_cycle("initial")
    /\ UNCHANGED <<variant, SYMBOLS, worker, formatted, price_data, now, scheduler, next_run,
                   mainpc, local, api_calls, resp>>

\* a faulty start-up, which hands the fetch to a background thread and goes on
\* to serve (C10 must not hold of it)
app_initial_fetch_async == "serving"

\* app.py: the start-up fetch is a plain call made by the importing thread,
\* which is busy in it until it returns
app_initial_fetch == "initial_fetch"

\* app.py module level: this process binds the lock socket, starts the
\* scheduler with the interval job and calls fetch_stock_prices() inline
app_start_scheduler ==
    /\ variant = "app"
    /\ mainpc = "start"
    /\ scheduler' = "running"
    /\ next_run' = now + FETCH_INTERVAL
    /\ mainpc' = app_initial_fetch
    /\ start_cycle("initial")
    /\ UNCHANGED <<variant, SYMBOLS, worker, formatted, price_data, now, initial_due, local,
                   api_calls, resp>>

\* app.py module level: another process holds the lock; no scheduler, no fetch
app_scheduler_elsewhere ==
    /\ variant = "app"
    /\ mainpc = "start"
    /\ mainpc' = "serving"
    /\ UNCHANGED <<variant, SYMBOLS, worker, formatted, price_data, now, scheduler, next_run,
                   initial_due, pc, idx, local, api_calls, resp, hist>>

\* the start-up run is over: the pool drops the one-shot job; in app.py the
\* inline call returns, the import completes and the server starts
finish_initial ==
    /\ pc["initial"] = "returned"
    /\ pc' = [pc EXCEPT !["initial"] = "done"]
    /\ mainpc' = IF variant = "app" THEN "serving" ELSE mainpc
    /\ UNCHANGED <<variant, SYMBOLS, worker, formatted, price_data, now, scheduler, next_run,
                   initial_due, idx, local, api_calls, resp, hist>>

\* the interval trigger fires and no instance of the interval job is running:
\* the job is submitted to the pool
tick_runs ==
    /\ scheduler = "running"
    /\ ~initial_due
    /\ now >= next_run
    /\ pc["tick"] = "idle"
    /\ next_run' = next_run + FETCH_INTERVAL
    /\ start_cycle("tick")
    /\ UNCHANGED <<variant, SYMBOLS, worker, formatted, price_data, now, scheduler, initial_due,
                   mainpc, local, api_calls, resp>>

\* the interval trigger fires while an instance of the interval job is still
\* running: max_instances=1 is reached and this run is skipped
tick_skipped ==
    /\ scheduler = "running"
    /\ ~initial_due
    /\ now >= next_run
    /\ pc["tick"] # "idle"
    /\ next_run' = next_run + FETCH_INTERVAL
    /\ UNCHANGED <<variant, SYMBOLS, worker, formatted, price_data, now, scheduler, initial_due,
                   mainpc, pc, idx, local, api_calls, resp, hist>>

\* the interval job's function has returned: the pool releases its instance
finish_tick ==
    /\ pc["tick"] = "returned"
    /\ pc' = [pc EXCEPT !["tick"] = "idle"]
    /\ UNCHANGED <<variant, SYMBOLS, worker, formatted, price_data, now, scheduler, next_run,
                   initial_due, mainpc, idx, local, api_calls, resp, hist>>

\* one minute passes; a due job is submitted before the clock moves on
advance_time ==
    /\ now < MaxTime
    /\ ~initial_due
    /\ scheduler = "running" => now < next_run
    /\ now' = now + 1
    /\ UNCHANGED <<variant, SYMBOLS, worker, formatted, price_data, scheduler, next_run,
                   initial_due, mainpc, pc, idx, local, api_calls, resp,
                   formatted, hist>>

\* a clock reading taken d minutes ago, seen one minute later: it is one
\* minute further back, and every reading MaxTime minutes back or more is
\* kept as 0
one_minute_older(ts) == IF ts > 0 THEN ts - 1 ELSE 0

\* one minute passes after the clock has reached MaxTime. The clock keeps
\* running; the model keeps now at MaxTime and moves every clock reading the
\* program holds (the cached timestamps, a pending write's timestamp, the
\* interval job's next fire time) one minute back instead, so that all the
\* differences the program computes stay as they are up to MaxTime minutes.
advance_time_beyond ==
    /\ now = MaxTime
    /\ ~initial_due
    /\ scheduler = "running" => now < next_run
    /\ next_run' = one_minute_older(next_run)
    /\ price_data' = [s \in DOMAIN price_data |->
                        [price_data[s] EXCEPT !.timestamp = one_minute_older(@)]]
    /\ local' = [t \in Threads |->
                   [local[t] EXCEPT !.timestamp = one_minute_older(@)]]
    /\ hist' = [hist EXCEPT
                  !.lastPut = [s \in DOMAIN hist.lastPut |->
                                 [hist.lastPut[s] EXCEPT !.timestamp = one_minute_older(@)]],
                  !.started = [t \in Threads |-> one_minute_older(hist.started[t])],
                  !.writer = [s \in DOMAIN hist.writer |-> one_minute_older(hist.writer[s])]]
    /\ UNCHANGED <<variant, SYMBOLS, worker, formatted, now, scheduler,
                   initial_due, mainpc, pc, idx, api_calls, resp>>

-----------------------------------------------------------------------------
(* The HTTP layer *)

\* the URL rules each program registers ("price" stands for /price/<symbol>)
routes(v) ==
    IF v = "app" THEN {"home", "prices", "price"} ELSE {"dashboard", "check", "health"}

Paths == {"check", "prices", "price", "health"}

\* a faulty check, which leaves symbols without a record out of the response
\* (C6 must not hold of it)
check_body_omits(data, symbols) ==
    [s \in Range(symbols) \cap DOMAIN data |->
        [price |-> data[s].price, timestamp |-> data[s].timestamp]]

\* web_server.check / standalone.check: one entry per configured symbol
check_body(data, symbols) ==
    [s \in Range(symbols) |->
        IF s \in DOMAIN data
        THEN [price |-> data[s].price, timestamp |-> data[s].timestamp]
        ELSE [price |-> None, timestamp |-> None, error |-> "No data available"]]

\* app.prices: jsonify(stock_data)
prices_body(data) == data

\* app.price: the argument is upper-cased and looked up in stock_data
price_response(data, symbol) ==
    LET sym == upper(symbol) IN
    IF sym \in DOMAIN data
    THEN [route |-> "price", symbol |-> symbol, status |-> 200, body |-> data[sym]]
    ELSE [route |-> "price", symbol |-> symbol, status |-> 404,
          body |-> [error |-> <<"Symbol ", sym, " not found">>]]

\* no URL rule matches: web_server.page_not_found answers in JSON; standalone.py
\* and app.py register no handler and Flask answers with its default page
not_found_response(v, path) ==
    [route |-> "not_found", status |-> 404,
     body |-> IF v = "main" THEN [error |-> "Endpoint not found"]
              ELSE [error |-> "Not Found"]]

serving == mainpc = "serving"

\* Python truth value of an optional number: None and 0.0 are false
truthy(x) == x.some /\ x.value # 0

\* the staleness text of a dashboard row: web_server.dashboard formats
\* whatever get_price_staleness returned; standalone.dashboard formats it only
\* if it is true, and writes "Unknown" otherwise
staleness_text(v, minutes) ==
    IF v = "standalone" /\ ~truthy(minutes) THEN {Unknown}
    ELSE format_staleness(minutes)

\* the row of a symbol: price and timestamp of its record (None, shown as
\* "No data" / "Never fetched", without one) and the staleness text.
\* A timestamp is a time.time() of today, so a record's timestamp is true.
dashboard_row(data, symbol, text) ==
    IF symbol \in DOMAIN data
    THEN [price |-> Some(data[symbol].price),
          timestamp |-> Some(data[symbol].timestamp), staleness |-> text]
    ELSE [price |-> Nothing, timestamp |-> Nothing, staleness |-> text]

\* the staleness texts the rows of one rendering can carry
staleness_texts(v, data, symbols, t) ==
    LET texts(s) == staleness_text(v, get_price_staleness(data, s, t))
    IN {f \in [Range(symbols) -> UNION {texts(s) : s \in Range(symbols)}] :
           \A s \in Range(symbols) : f[s] \in texts(s)}

\* a faulty lookup, prices.setdefault(symbol, {...}), which leaves a
\* placeholder record in the cache for a symbol that has none (C20 must not
\* hold of it)
cache_after_setdefault(data, symbols) ==
    [s \in DOMAIN data \cup Range(symbols) |->
        IF s \in DOMAIN data THEN data[s] ELSE [price |-> 0, timestamp |-> 0]]

\* the cache after the dashboard's lookups prices.get(symbol, {...}): get
\* returns the default without storing it
cache_after_lookups(data, symbols) == data

\* GET / of web_server.py and standalone.py: what is handed to the template
\* (standalone.py: written into the HTML)
dashboard ==
    /\ serving
    /\ "dashboard" \in routes(variant)
    /\ \E texts \in staleness_texts(variant, price_data, SYMBOLS, now) :
          resp' = [route |-> "dashboard", status |-> 200,
                   body |-> [data |-> [s \in Range(SYMBOLS) |->
                                         dashboard_row(price_data, s, texts[s])],
                             total_calls |-> api_calls]]
    /\ price_data' = cache_after_lookups(price_data, SYMBOLS)
    /\ UNCHANGED <<variant, SYMBOLS, worker, formatted, now, scheduler, next_run,
                   initial_due, mainpc, pc, idx, local, api_calls, hist>>

\* GET / of app.py
home ==
    /\ serving
    /\ "home" \in routes(variant)
    /\ resp' = [route |-> "home", status |-> 200,
                body |-> [service |-> "Stock Price Service", status |-> "running",
                          symbols |-> SYMBOLS]]
    /\ UNCHANGED <<variant, SYMBOLS, worker, formatted, price_data, now, scheduler,
                   next_run, initial_due, mainpc, pc, idx, local, api_calls, hist>>

\* GET /check
check ==
    /\ serving
    /\ "check" \in routes(variant)
    /\ api_calls < MaxCalls
    /\ api_calls' = api_calls + 1
    /\ resp' = [route |-> "check", status |-> 200,
                body |-> check_body(price_data, SYMBOLS)]
    /\ UNCHANGED <<variant, SYMBOLS, worker, formatted, price_data, now, scheduler, next_run,
                   initial_due, mainpc, pc, idx, local, hist>>

\* prices.get(symbol, {}): one dict lookup, which returns the record object
\* that is in the cache at that moment
prices_get(data, symbol) ==
    IF symbol \in DOMAIN data
    THEN [found |-> TRUE, price |-> data[symbol].price,
          timestamp |-> data[symbol].timestamp]
    ELSE NoData

\* a faulty check, which looks the symbol up in the cache a second time for
\* the timestamp (C19 must not hold of it)
response_entry_rereads(held, data, symbol) ==
    IF held.found
    THEN [price |-> held.price, timestamp |-> data[symbol].timestamp]
    ELSE [price |-> None, timestamp |-> None, error |-> "No data available"]

\* response_data[symbol]: both fields are read from the record object that
\* prices.get() has returned
response_entry(held, data, symbol) ==
    IF held.found
    THEN [price |-> held.price, timestamp |-> held.timestamp]
    ELSE [price |-> None, timestamp |-> None, error |-> "No data available"]

\* GET /check in another server thread, step by step.
\* api_calls["total"] += 1 is a load, an add and a store: the load
check_load ==
    /\ serving
    /\ "check" \in routes(variant)
    /\ worker.pc = "idle"
    /\ api_calls < MaxCalls
    /\ worker' = [Idle EXCEPT !.pc = "incr", !.total = api_calls]
    /\ UNCHANGED <<variant, SYMBOLS, price_data, now, scheduler, next_run,
                   initial_due, mainpc, pc, idx, local, api_calls, resp,
                   formatted, hist>>

\* the store of api_calls["total"] += 1
check_store ==
    /\ worker.pc = "incr"
    /\ mainpc # "exited"
    /\ api_calls' = worker.total + 1
    /\ worker' = [Idle EXCEPT !.pc = "get", !.i = 1]
    /\ UNCHANGED <<variant, SYMBOLS, price_data, now, scheduler, next_run,
                   initial_due, mainpc, pc, idx, local, resp, formatted, hist>>

\* data = prices.get(symbol, {})
check_get ==
    /\ worker.pc = "get"
    /\ mainpc # "exited"
    /\ worker' = [worker EXCEPT !.pc = "entry",
                                !.data = prices_get(price_data, SYMBOLS[worker.i])]
    /\ UNCHANGED <<variant, SYMBOLS, price_data, now, scheduler, next_run,
                   initial_due, mainpc, pc, idx, local, api_calls, resp,
                   formatted, hist>>

\* response_data[symbol] = {...}; after the last symbol, return jsonify(response_data)
check_entry ==
    /\ worker.pc = "entry"
    /\ mainpc # "exited"
    /\ LET symbol == SYMBOLS[worker.i]
           response_data ==
               [s \in DOMAIN worker.body \cup {symbol} |->
                   IF s = symbol
                   THEN response_entry(worker.data, price_data, symbol)
                   ELSE worker.body[s]]
       IN IF worker.i < Len(SYMBOLS)
          THEN /\ worker' = [Idle EXCEPT !.pc = "get", !.i = worker.i + 1,
                                         !.body = response_data]
               /\ resp' = resp
          ELSE /\ worker' = Idle
               /\ resp' = [route |-> "check", status |-> 200, body |-> response_data]
    /\ UNCHANGED <<variant, SYMBOLS, price_data, now, scheduler, next_run,
                   initial_due, mainpc, pc, idx, local, api_calls, formatted, hist>>

\* the dashboard row built from the record object that prices.get() returned
held_row(held, text) ==
    IF held.found
    THEN [price |-> Some(held.price), timestamp |-> Some(held.timestamp),
          staleness |-> text]
    ELSE [price |-> Nothing, timestamp |-> Nothing, staleness |-> text]

\* GET / of web_server.py and standalone.py in a server thread, step by step.
\* data = prices.get(symbol, {...}); price and timestamp are taken from data
dashboard_get ==
    /\ IF worker.pc = "idle"
       THEN serving /\ "dashboard" \in routes(variant)
       ELSE worker.pc = "row" /\ mainpc # "exited"
    /\ LET i == IF worker.pc = "idle" THEN 1 ELSE worker.i
       IN worker' = [worker EXCEPT !.pc = "age", !.i = i,
                                   !.data = prices_get(price_data, SYMBOLS[i])]
    /\ UNCHANGED <<variant, SYMBOLS, price_data, now, scheduler, next_run,
                   initial_due, mainpc, pc, idx, local, api_calls, resp,
                   formatted, hist>>

\* staleness_minutes = get_price_staleness(symbol), which looks the symbol up
\* in the cache again and reads the clock; the row is stored in
\* formatted_data; after the last symbol the page is rendered
dashboard_staleness ==
    /\ worker.pc = "age"
    /\ mainpc # "exited"
    /\ LET symbol == SYMBOLS[worker.i]
           staleness_minutes == get_price_staleness(price_data, symbol, now)
       IN \E text \in staleness_text(variant, staleness_minutes) :
            LET formatted_data ==
                    [s \in DOMAIN worker.body \cup {symbol} |->
                        IF s = symbol THEN held_row(worker.data, text)
                        ELSE worker.body[s]]
            IN IF worker.i < Len(SYMBOLS)
               THEN /\ worker' = [Idle EXCEPT !.pc = "row", !.i = worker.i + 1,
                                              !.body = formatted_data]
                    /\ resp' = resp
               ELSE /\ worker' = Idle
                    /\ resp' = [route |-> "dashboard", status |-> 200,
                                body |-> [data |-> formatted_data,
                                          total_calls |-> api_calls]]
    /\ UNCHANGED <<variant, SYMBOLS, price_data, now, scheduler, next_run,
                   initial_due, mainpc, pc, idx, local, api_calls, formatted, hist>>

\* GET /prices
prices ==
    /\ serving
    /\ "prices" \in routes(variant)
    /\ resp' = [route |-> "prices", status |-> 200, body |-> prices_body(price_data)]
    /\ UNCHANGED <<variant, SYMBOLS, worker, formatted, price_data, now, scheduler, next_run,
                   initial_due, mainpc, pc, idx, local, api_calls, hist>>

\* GET /price/<symbol>
price(symbol) ==
    /\ serving
    /\ "price" \in routes(variant)
    /\ resp' = price_response(price_data, symbol)
    /\ UNCHANGED <<variant, SYMBOLS, worker, formatted, price_data, now, scheduler, next_run,
                   initial_due, mainpc, pc, idx, local, api_calls, hist>>

\* a faulty health endpoint, which reports on the cache (C14 must not hold of it)
health_response_checks_cache(data, t) ==
    IF data = Empty
    THEN [route |-> "health", status |-> 503,
          body |-> [status |-> "no data", timestamp |-> t]]
    ELSE [route |-> "health", status |-> 200,
          body |-> [status |-> "ok", timestamp |-> t]]

\* web_server.health / standalone.health: jsonify({"status": "ok",
\* "timestamp": time.time()}); the cache is not looked at
health_response(data, t) ==
    [route |-> "health", status |-> 200, body |-> [status |-> "ok", timestamp |-> t]]

\* GET /health
health ==
    /\ serving
    /\ "health" \in routes(variant)
    /\ resp' = health_response(price_data, now)
    /\ UNCHANGED <<variant, SYMBOLS, worker, formatted, price_data, now, scheduler, next_run,
                   initial_due, mainpc, pc, idx, local, api_calls, hist>>

\* GET of a path the program has no URL rule for
not_found(path) ==
    /\ serving
    /\ path \notin routes(variant)
    /\ resp' = not_found_response(variant, path)
    /\ UNCHANGED <<variant, SYMBOLS, worker, formatted, price_data, now, scheduler, next_run,
                   initial_due, mainpc, pc, idx, local, api_calls, hist>>

-----------------------------------------------------------------------------
(* Shutdown *)

\* a faulty shutdown, which does not wait for the pool, as
\* scheduler.shutdown(wait=False) would (C11 must not hold of it)
pool_drained_nowait == TRUE

\* scheduler.shutdown() is called without arguments, so wait=True: it returns
\* when every job the pool is running has finished
pool_drained == \A t \in Threads : pc[t] \in {"idle", "done"}

\* what scheduler.shutdown() does at once: the scheduler stops submitting
\* jobs, and a one-shot job that was still waiting never runs; the main thread
\* has left the server loop, so no response is outstanding
stop_scheduler ==
    /\ scheduler' = "shutdown"
    /\ initial_due' = FALSE
    /\ mainpc' = "shutdown"
    /\ resp' = NoResp

\* main.signal_handler / standalone.signal_handler: SIGINT or SIGTERM
\* interrupts the main thread, which is in app.run(), and it calls
\* shutdown_scheduler()
signal_handler ==
    /\ variant # "app"
    /\ serving
    /\ stop_scheduler
    /\ UNCHANGED <<variant, SYMBOLS, worker, formatted, price_data, now, next_run, pc, idx, local,
                   api_calls, hist>>

\* app.cleanup_scheduler, registered with atexit by the process that started
\* the scheduler: the interpreter exits and the hook calls scheduler.shutdown()
cleanup_scheduler ==
    /\ variant = "app"
    /\ serving
    /\ scheduler = "running"
    /\ stop_scheduler
    /\ UNCHANGED <<variant, SYMBOLS, worker, formatted, price_data, now, next_run, pc, idx, local,
                   api_calls, hist>>

\* scheduler.shutdown() returns and the process ends: sys.exit(0) in the
\* signal handlers, the end of the atexit hooks in app.py
sys_exit ==
    /\ mainpc = "shutdown"
    /\ pool_drained
    /\ mainpc' = "exited"
    /\ UNCHANGED <<variant, SYMBOLS, worker, formatted, price_data, now, scheduler, next_run,
                   initial_due, pc, idx, local, api_calls, resp, hist>>

-----------------------------------------------------------------------------
(* The specification *)

Next ==
    \/ main
    \/ run_initial_job
    \/ app_start_scheduler
    \/ app_scheduler_elsewhere
    \/ finish_initial
    \/ tick_runs
    \/ tick_skipped
    \/ finish_tick
    \/ advance_time
    \/ \E t \in Threads : FetchOk(t)
    \/ \E t \in Threads : Store(t)
    \/ \E t \in Threads, f \in Failures : FetchFailed(t, f)
    \/ \E t \in Threads, f \in Failures : FetchAborted(t, f)
    \/ check
    \/ prices
    \/ \E symbol \in RequestSymbols : price(symbol)
    \/ health
    \/ \E path \in Paths : not_found(path)
    \/ dashboard
    \/ home
    \/ signal_handler
    \/ cleanup_scheduler
    \/ sys_exit

Spec == Init /\ [][Next]_vars

\* Start-up, the scheduler, the fetch cycles and shutdown, without requests.
ShutdownNext ==
    \/ main
    \/ run_initial_job
    \/ app_start_scheduler
    \/ app_scheduler_elsewhere
    \/ finish_initial
    \/ tick_runs
    \/ tick_skipped
    \/ finish_tick
    \/ advance_time
    \/ \E t \in Threads : FetchOk(t)
    \/ \E t \in Threads : Store(t)
    \/ \E t \in Threads, f \in Failures : FetchFailed(t, f)
    \/ \E t \in Threads, f \in Failures : FetchAborted(t, f)
    \/ signal_handler
    \/ cleanup_scheduler
    \/ sys_exit

CycleSpec == Init /\ [][ShutdownNext]_vars

\* The same with fairness: a thread that can take a step of the program's own
\* takes it, the scheduler thread submits what is due, and the clock moves
\* on. No fairness is stated for the return of the market data client
\* (FetchOk, FetchFailed, FetchAborted): a call may hang for ever. Nor for
\* the shutdown signal, which may never come.
Fairness ==
    /\ WF_vars(main)
    /\ WF_vars(run_initial_job)
    /\ WF_vars(app_start_scheduler \/ app_scheduler_elsewhere)
    /\ WF_vars(finish_initial)
    /\ WF_vars(tick_runs)
    /\ WF_vars(tick_skipped)
    /\ WF_vars(finish_tick)
    /\ WF_vars(advance_time)
    /\ \A t \in Threads : WF_vars(Store(t))
    /\ WF_vars(sys_exit)

ShutdownSpec == Init /\ [][ShutdownNext]_vars /\ Fairness

\* The program running for ever: the clock goes on past MaxTime, so the
\* interval trigger keeps firing for as long as the scheduler runs.
LiveNext ==
    \/ ShutdownNext
    \/ advance_time_beyond

LiveSpec ==
    Init /\ [][LiveNext]_vars /\ Fairness /\ WF_vars(advance_time_beyond)

\* format_staleness on its own: the argument is any staleness of 0 to
\* MaxMinutes minutes, and the one step is the call.
FormatInit ==
    /\ ProgramInit
    /\ \E m \in 0..MaxMinutes :
          formatted = [minutes |-> Some(m), text |-> Unknown, returned |-> FALSE]

format_staleness_call ==
    /\ ~formatted.returned
    /\ \E text \in format_staleness(formatted.minutes) :
          formatted' = [formatted EXCEPT !.text = text, !.returned = TRUE]
    /\ UNCHANGED <<variant, SYMBOLS, price_data, now, scheduler, next_run,
                   initial_due, mainpc, pc, idx, local, api_calls, resp, worker,
                   hist>>

FormatNext == format_staleness_call

FormatSpec == FormatInit /\ [][FormatNext]_vars

\* The fetch cycles together with a request that is handled concurrently: one
\* server thread is followed through check() step by step (in app.py, price()
\* is one lookup), and the cycles take their steps in between.
ReaderNext ==
    \/ main
    \/ run_initial_job
    \/ app_start_scheduler
    \/ app_scheduler_elsewhere
    \/ finish_initial
    \/ tick_runs
    \/ tick_skipped
    \/ finish_tick
    \/ advance_time
    \/ \E t \in Threads : FetchOk(t)
    \/ \E t \in Threads : Store(t)
    \/ \E t \in Threads, f \in Failures : FetchFailed(t, f)
    \/ \E t \in Threads, f \in Failures : FetchAborted(t, f)
    \/ check_load
    \/ check_store
    \/ check_get
    \/ check_entry
    \/ \E symbol \in RequestSymbols : price(symbol)

ReaderSpec == Init /\ [][ReaderNext]_vars

\* The fetch cycles together with a dashboard request that is followed step
\* by step.
DashboardNext ==
    \/ main
    \/ run_initial_job
    \/ app_start_scheduler
    \/ app_scheduler_elsewhere
    \/ finish_initial
    \/ tick_runs
    \/ tick_skipped
    \/ finish_tick
    \/ advance_time
    \/ \E t \in Threads : FetchOk(t)
    \/ \E t \in Threads : Store(t)
    \/ \E t \in Threads, f \in Failures : FetchFailed(t, f)
    \/ \E t \in Threads, f \in Failures : FetchAborted(t, f)
    \/ dashboard_get
    \/ dashboard_staleness

DashboardSpec == Init /\ [][DashboardNext]_vars

\* The same, with the other server threads handling /check requests of their
\* own while the followed thread is inside check().
ConcurrentNext ==
    \/ ReaderNext
    \/ check

ConcurrentSpec == Init /\ [][ConcurrentNext]_vars

-----------------------------------------------------------------------------
(* Claims *)

cycles_in_flight == {t \in Threads : running(t)}

\* C1: in every reachable state at most one fetch cycle is executing, the
\* start-up run and the runs of the interval job counted together.
C1_AtMostOneCycleInFlight == Cardinality(cycles_in_flight) <= 1

\* thread t's fetch of its current symbol ends in this step without a price
fetch_fails(t) ==
    /\ pc[t] = "call"
    /\ pc'[t] # "store"
    /\ pc'[t] = "returned" \/ idx'[t] # idx[t]

same_entry(s) ==
    /\ s \in DOMAIN price_data' <=> s \in DOMAIN price_data
    /\ s \in DOMAIN price_data =>
          /\ price_data'[s].price = price_data[s].price
          /\ price_data'[s].timestamp = price_data[s].timestamp

\* C2: a step in which the fetch of a symbol fails (no rows, no Close column, or
\* an exception) leaves the cache entry of that symbol as it was: the same price
\* and timestamp if there was a record, and no record if there was none.
C2_FailedFetchKeepsEntry ==
    [][\A t \in Threads : fetch_fails(t) => same_entry(symbol_of(t))]_vars

\* C2 witness: the interval cycle has failed on the first symbol, whose record
\* from the start-up cycle is still in the cache.
C2_Witness ==
    /\ pc["initial"] = "done"
    /\ pc["tick"] = "call"
    /\ idx["tick"] = 2
    /\ SYMBOLS[1] \in DOMAIN price_data
    /\ hist.writer[SYMBOLS[1]] < hist.started["tick"]

\* C3: a fetch cycle that has returned has called the client for every
\* configured symbol, in order, whatever the earlier calls of the cycle gave.
C3_EverySymbolAttempted ==
    \A t \in Threads : pc[t] = "returned" => idx[t] = Len(SYMBOLS)

\* a write of symbol s is pending: update_price has read the clock and not yet stored
put_pending(s) == \E t \in Threads : pc[t] = "store" /\ symbol_of(t) = s

\* C4: a symbol is a key of the cache exactly if a fetch of it has succeeded
\* (the write of a fetch that has just succeeded may still be pending), and a
\* key that is present is never removed.
C4_KeyIffFetched ==
    /\ [](\A s \in Range(SYMBOLS) \cup DOMAIN price_data :
            /\ s \in DOMAIN price_data => s \in hist.succeeded
            /\ (s \in hist.succeeded /\ ~put_pending(s)) => s \in DOMAIN price_data)
    /\ [][DOMAIN price_data \subseteq DOMAIN price_data']_vars

\* C4 witness: the start-up cycle is over, having fetched the first symbol and
\* failed on the second.
C4_Witness ==
    /\ pc["initial"] = "done"
    /\ Len(SYMBOLS) = 2
    /\ SYMBOLS[1] \in DOMAIN price_data
    /\ SYMBOLS[2] \notin DOMAIN price_data

\* C5: the record of a symbol is never overwritten by a cycle that started
\* earlier than the cycle that wrote it, and its timestamp never decreases.
C5_LaterCycleWins ==
    [][\A s \in DOMAIN price_data :
          /\ hist.writer'[s] >= hist.writer[s]
          /\ price_data'[s].timestamp >= price_data[s].timestamp]_vars

\* the entry the claim gives symbol s in a response body built from data
full_entry(body, data, s) ==
    IF s \in DOMAIN data
    THEN /\ DOMAIN body[s] = {"price", "timestamp"}
         /\ body[s].price = data[s].price
         /\ body[s].timestamp = data[s].timestamp
    ELSE /\ DOMAIN body[s] = {"price", "timestamp", "error"}
         /\ body[s].price = None
         /\ body[s].timestamp = None
         /\ body[s].error = "No data available"

\* a body with an entry for every configured symbol and no other key
full_body(body, data) ==
    /\ DOMAIN body = Range(SYMBOLS)
    /\ \A s \in Range(SYMBOLS) : full_entry(body, data, s)

fetched_any_case(symbol) ==
    \E k \in DOMAIN price_data : upper(k) = upper(symbol)

\* C7: GET /price/<symbol> answers 200 with the record of the symbol when the
\* symbol has a record, and 404 with an error body when no fetch of the symbol
\* ever succeeded.
C7_PriceReturnsRecordOr404 ==
    [][\A symbol \in RequestSymbols : price(symbol) =>
          /\ symbol \in DOMAIN price_data =>
                /\ resp'.status = 200
                /\ resp'.body = price_data[symbol]
          /\ ~fetched_any_case(symbol) =>
                /\ resp'.status = 404
                /\ DOMAIN resp'.body = {"error"}]_vars

\* C8: the keys of the cache are upper-case, and GET /price/<s> answers 200
\* with the record for every casing s of a symbol that was fetched successfully.
C8_LookupIsCaseInsensitive ==
    [][/\ \A k \in DOMAIN price_data' : k = upper(k)
       /\ \A symbol \in RequestSymbols :
             (price(symbol) /\ fetched_any_case(symbol)) => resp'.status = 200]_vars

\* C9: in every state the record of a symbol is exactly the price and timestamp
\* of the last write made for that symbol, and there is no record if there was
\* no write: nothing but a write for the symbol changes what get_price returns.
C9_GetReturnsLastPut ==
    \A s \in Range(SYMBOLS) \cup DOMAIN price_data \cup DOMAIN hist.lastPut :
        /\ s \in DOMAIN price_data <=> s \in DOMAIN hist.lastPut
        /\ s \in DOMAIN price_data =>
              /\ price_data[s].price = hist.lastPut[s].price
              /\ price_data[s].timestamp = hist.lastPut[s].timestamp

\* C9 witness: the interval cycle has overwritten the first symbol's record and
\* failed on the second symbol, a /check request has been answered since, and
\* the record is still the one the interval cycle wrote.
C9_Witness ==
    /\ pc["tick"] = "returned"
    /\ Len(SYMBOLS) = 2
    /\ SYMBOLS[1] \in DOMAIN price_data
    /\ SYMBOLS[2] \in DOMAIN price_data
    /\ hist.writer[SYMBOLS[1]] = hist.started["tick"]
    /\ hist.writer[SYMBOLS[2]] < hist.started["tick"]
    /\ price_data[SYMBOLS[1]].timestamp >= 1
    /\ resp.route = "check"
    /\ "error" \notin DOMAIN resp.body[SYMBOLS[1]]
    /\ resp.body[SYMBOLS[1]].timestamp = price_data[SYMBOLS[1]].timestamp

\* the start-up cycle has run to its end
initial_cycle_complete == pc["initial"] = "done" /\ idx["initial"] = Len(SYMBOLS)

\* C10 as stated: a request is answered only after the start-up cycle has
\* completed, every configured symbol attempted once.
C10_StartupCycleBeforeFirstRequest ==
    resp.route # "none" => initial_cycle_complete

\* C10 amended: in app.py, where the start-up fetch is a plain call at import
\* time, a process that started the scheduler answers requests only after that
\* call has returned (it may have been left early by an exception); in main.py
\* and standalone.py the start-up cycle is a job of the background scheduler
\* and requests are answered while it is waiting or running.
C10_AppStartupFetchBeforeFirstRequest ==
    (variant = "app" /\ scheduler = "running" /\ resp.route # "none")
        => pc["initial"] = "done"

\* C10 witness: app.py answers a request after its start-up fetch has returned
\* and filled the cache.
C10_Witness ==
    /\ variant = "app"
    /\ resp.route = "prices"
    /\ pc["initial"] = "done"
    /\ DOMAIN price_data # {}

\* a fetch cycle starts executing in thread t in this step
cycle_starts(t) == ~running(t) /\ running(t)'

\* C11: from the call of scheduler.shutdown() on, no fetch cycle starts; and
\* once the shutdown has completed (the process has gone on to exit), no fetch
\* cycle starts and no step changes the cache.
C11_ShutdownStopsCycles ==
    [][/\ scheduler = "shutdown" => \A t \in Threads : ~cycle_starts(t)
       /\ mainpc = "exited" =>
             /\ \A t \in Threads : ~cycle_starts(t)
             /\ price_data' = price_data]_vars

\* C11 witness: the shutdown has completed with prices in the cache, and the
\* clock has reached the time at which the interval job was to fire next.
C11_Witness ==
    /\ mainpc = "exited"
    /\ scheduler = "shutdown"
    /\ price_data # Empty
    /\ now >= next_run

\* the followed /check request stores the counter in this step
counter_stored == worker.pc = "incr" /\ worker'.pc # "incr"

\* C12: every /check request adds exactly one to the request counter, also
\* when requests are handled concurrently: the step in which a request stores
\* the counter leaves it one higher than it was, and no other step changes it.
C12_CheckCountsEveryRequest ==
    [][(counter_stored \/ api_calls' # api_calls) => api_calls' = api_calls + 1]_vars

\* the price and the timestamp of a response entry were written by one put:
\* every put stores the quote of the instant at which its timestamp is read,
\* and quotes of different instants differ
one_put(entry) ==
    /\ DOMAIN entry = {"price", "timestamp"}
    /\ entry.price = close_price(entry.timestamp)

whole_records(body) ==
    \A s \in DOMAIN body : "error" \in DOMAIN body[s] \/ one_put(body[s])

\* C19: whatever steps the fetch cycles take while a request is handled, every
\* record in a /check response (finished or being built) and every /price
\* response carries the price and the timestamp of one and the same put.
C19_ReadersSeeWholeRecords ==
    /\ whole_records(worker.body)
    /\ resp.route = "check" => whole_records(resp.body)
    /\ (resp.route = "price" /\ resp.status = 200) => one_put(resp.body)

\* C19 witness: a cycle has overwritten the record of a symbol between the
\* lookup of check() and its use of the record it holds.
C19_Witness ==
    /\ worker.pc = "entry"
    /\ worker.data.found
    /\ price_data[SYMBOLS[worker.i]].timestamp > worker.data.timestamp

staleness(s) == get_price_staleness(price_data, s, now)

\* thread t writes the record of symbol s in this step
puts(t, s) == pc[t] = "store" /\ symbol_of(t) = s /\ pc'[t] # "store"

\* staleness is None exactly for the symbols without a record, and otherwise
\* it is the clock minus the record's timestamp, and not negative
staleness_defined ==
    \A s \in Range(SYMBOLS) :
        IF s \in DOMAIN price_data
        THEN /\ staleness(s) = Some(now - price_data[s].timestamp)
             /\ staleness(s).value >= 0
        ELSE staleness(s) = Nothing

\* between puts the staleness of a record does not decrease
staleness_grows ==
    \A s \in Range(SYMBOLS) :
        (s \in DOMAIN price_data /\ \A t \in Threads : ~puts(t, s))
            => staleness(s)'.value >= staleness(s).value

\* C13 as stated: staleness is absent without a record, otherwise it is the
\* clock minus the timestamp, never negative, not decreasing until the next
\* put for the symbol, and 0 immediately after a put.
C13_StalenessZeroAfterPut ==
    /\ []staleness_defined
    /\ [][/\ staleness_grows
          /\ \A t \in Threads, s \in Range(SYMBOLS) :
                puts(t, s) => staleness(s)' = Some(0)]_vars

\* C13, amended: immediately after a put the staleness is the time that has
\* passed since the put read the clock, which is before it writes the record.
C13_StalenessSinceClockRead ==
    /\ []staleness_defined
    /\ [][/\ staleness_grows
          /\ \A t \in Threads, s \in Range(SYMBOLS) :
                puts(t, s) => staleness(s)' = Some(now - local[t].timestamp)]_vars

\* C13 witness: one symbol has a record that has aged, while another has none.
C13_Witness ==
    \E s1, s2 \in Range(SYMBOLS) :
        /\ s1 \in DOMAIN price_data
        /\ staleness(s1).value > 0
        /\ s2 \notin DOMAIN price_data
        /\ staleness(s2) = Nothing

\* C14: while a program that has the /health route is serving, a request to
\* /health is answered whatever the state of the cache and of the fetch
\* cycles, and every /health response is 200 with status "ok".
C14_HealthAlwaysOk ==
    /\ (serving /\ "health" \in routes(variant)) => ENABLED health
    /\ resp.route = "health" => (resp.status = 200 /\ resp.body.status = "ok")

\* C14 witness: /health has just answered while an interval cycle is in
\* flight and the cache is empty because the start-up cycle failed on every symbol.
C14_Witness ==
    /\ resp.route = "health"
    /\ resp.body.timestamp = now
    /\ pc["initial"] = "done"
    /\ running("tick")
    /\ price_data = Empty

\* tenths / 10 is num / den to one decimal: no tenth is nearer to the quotient
nearest_tenth(tenths, num, den) ==
    /\ 2 * (10 * num - tenths * den) <= den
    /\ 2 * (tenths * den - 10 * num) <= den

\* C15: for every staleness m >= 0 in minutes, format_staleness returns m in
\* minutes when m < 60, m / 60 in hours when 60 <= m < 1440 and m / 1440 in
\* days when m >= 1440, each to one decimal; 30 gives "30.0 minutes", 90
\* gives "1.5 hours" and 2000 gives "1.4 days".
C15_FormatSelectsUnit ==
    formatted.returned =>
        LET m == formatted.minutes.value
            text == formatted.text
        IN /\ m < 60 =>
                (text.unit = "minutes" /\ nearest_tenth(text.tenths, m, 1))
           /\ (60 <= m /\ m < 1440) =>
                (text.unit = "hours" /\ nearest_tenth(text.tenths, m, 60))
           /\ m >= 1440 =>
                (text.unit = "days" /\ nearest_tenth(text.tenths, m, 1440))
           /\ m = 30 => text = [tenths |-> 300, unit |-> "minutes"]
           /\ m = 90 => text = [tenths |-> 15, unit |-> "hours"]
           /\ m = 2000 => text = [tenths |-> 14, unit |-> "days"]

\* C15 witness: a staleness of exactly one day has been formatted as "1.0 days".
C15_Witness ==
    /\ formatted.returned
    /\ formatted.minutes = Some(1440)
    /\ formatted.text = [tenths |-> 10, unit |-> "days"]

\* the interval trigger fires in this step
tick_fires == scheduler = "running" /\ next_run' # next_run

\* C16: a tick that fires while a fetch cycle is running is skipped and not
\* queued: no cycle starts in that step, and a cycle of the interval job
\* starts only in the step of a tick that fires while no cycle is running (so
\* that the cycles started by ticks are as many as those ticks).
C16_TickDuringCycleIsSkipped ==
    [][/\ (tick_fires /\ cycles_in_flight # {}) =>
              \A t \in Threads : ~cycle_starts(t)
       /\ cycle_starts("tick") => (tick_fires /\ cycles_in_flight = {})]_vars

\* C17: a shutdown that has been asked for completes: after the shutdown
\* signal the process eventually exits, even if the client call of the
\* running cycle never returns.
C17_ShutdownCompletes == (mainpc = "shutdown") ~> (mainpc = "exited")

\* the fetch cycle of thread t ends in this step
cycle_ends(t) == running(t) /\ ~running(t)'

\* C18: a fetch cycle never raises to its caller, whatever mix of empty
\* results, results without a close and client exceptions it meets; and the
\* end of a cycle, also of one in which every symbol failed, leaves the
\* scheduler running with the interval job's next fire time as it was.
C18_CycleNeverRaises ==
    /\ [](\A t \in Threads : pc[t] # "raised")
    /\ [][\A t \in Threads :
            cycle_ends(t) => (pc'[t] = "returned" /\ scheduler' = scheduler
                              /\ next_run' = next_run)]_vars

\* C18 witness: the start-up cycle and the first interval cycle have failed on
\* every symbol (the cache is still empty at minute 2), and the scheduler has
\* started the next interval cycle.
C18_Witness ==
    /\ pc["initial"] = "done"
    /\ pc["tick"] = "call"
    /\ hist.started["tick"] = 2
    /\ hist.succeeded = {}
    /\ price_data = Empty

\* C20: the HTTP layer only reads the cache: a step that produces a response
\* (to /, /check, /prices, /price/<symbol>, /health or an unknown path) or
\* moves a request forward leaves every cache record as it was, and every step
\* that changes the cache is the write of a put by a fetch cycle.
C20_HttpLayerReadsOnly ==
    [][/\ (resp' # resp \/ worker' # worker) => price_data' = price_data
       /\ price_data' # price_data =>
             \E t \in Threads : pc[t] = "store" /\ pc'[t] # "store"]_vars

\* C20 witness: the dashboard has been served while one configured symbol has a
\* record and another has none, and the cache still has no record for it.
C20_Witness ==
    /\ resp.route = "dashboard"
    /\ price_data # Empty
    /\ \E s \in Range(SYMBOLS) :
          /\ s \notin DOMAIN price_data
          /\ ~resp.body.data[s].price.some

\* a dashboard row rendered at clock reading t shows one record: without a
\* record (no price, "Never fetched") it has no numeric age, and a numeric age
\* is the staleness at t of the record whose timestamp the row shows
row_of_one_record(row, t) ==
    /\ ~row.timestamp.some => row.staleness = Unknown
    /\ (row.timestamp.some /\ row.staleness # Unknown) =>
          row.staleness \in format_staleness(Some(t - row.timestamp.value))

\* the followed dashboard request completes the row of a symbol in this step
row_completed == worker.pc = "age" /\ worker'.pc # "age"

\* C21: whatever steps the fetch cycles take while the dashboard is rendered,
\* every row it completes is a view of one record: never "Never fetched" / no
\* price together with a numeric age, and never the timestamp of one record
\* with the age of another.
C21_DashboardRowOfOneRecord ==
    [][row_completed =>
          LET symbol == SYMBOLS[worker.i]
          IN IF worker'.pc = "row"
             THEN row_of_one_record(worker'.body[symbol], now)
             ELSE row_of_one_record(resp'.body.data[symbol], now)]_vars

\* C22: on a dashboard page every configured symbol that has a cached record
\* has its age rendered as a formatted duration, also when the page is served
\* at the clock value of the put, and "Unknown" is shown only for symbols
\* without a record.
C22_UnknownOnlyWithoutRecord ==
    resp.route = "dashboard" =>
        \A s \in DOMAIN resp.body.data :
            resp.body.data[s].price.some <=> resp.body.data[s].staleness # Unknown

\* C23: if ticks keep firing and shutdown is never requested, fetch cycles
\* keep starting for ever, also when a client call of some cycle never
\* returns; and a symbol for which the client has succeeded gets a cache
\* record.
C23_RefreshIsLive ==
    ([]<><<tick_fires>>_vars /\ [](mainpc \notin {"shutdown", "exited"})) =>
        /\ []<><<\E t \in Threads : cycle_starts(t)>>_vars
        /\ []<>(hist.succeeded \subseteq DOMAIN price_data)

====
